---- MODULE Spec2Model ----
(***************************************************************************)
(* Model of src/analyzer.py: NPMAnalyzer.get_package_info,                 *)
(* NPMAnalyzer.extract_dependencies, NPMAnalyzer.analyze_dependencies and  *)
(* main.                                                                   *)
(*                                                                         *)
(* A Python dict is modelled as the sequence of its <<key, value>> pairs   *)
(* in insertion order, with pairwise distinct keys.  A key that may be     *)
(* missing from a JSON object is modelled by an option record              *)
(* [present, val].  A Python call either returns a value or raises: its    *)
(* outcome is a record [raised, error, value].                             *)
(***************************************************************************)
EXTENDS Naturals, Sequences, FiniteSets

VARIABLES
    op,            \* the operation the caller invoked last ("none" before any)
    config,        \* the package name given to it: option of a string
    cfgfile,       \* main only: what loading the configuration file gave
    net,           \* what the network did with the request of this call
    doc,           \* the document given to, or fetched for, extract_dependencies
    fetched,       \* outcome of get_package_info in the last call
    result,        \* outcome of extract_dependencies / analyze_dependencies
    events,        \* side effects of the last call, in order
    requests,      \* every URL requested so far, over all calls
    exited,        \* the process called sys.exit
    calls          \* number of calls made so far

vars == <<op, config, cfgfile, net, doc, fetched, result, events,
          requests, exited, calls>>

---------------------------------------------------------------------------
(* Bounds and input alphabets *)

MaxCalls == 2

MaxEntries == 2

DepNames == {"lodash", "jest"}

Ranges == {"^4.17.21", "^27.0.0"}

VersionKeys == {"0.1.0", "0.2.0"}

LatestTags == VersionKeys \cup {"", "1.2.3"}

PackageNames == {"express", "sample"}

---------------------------------------------------------------------------
(* Python dict primitives *)

EmptyDict == <<>>

Keys(d) == [i \in 1..Len(d) |-> d[i][1]]

KeySet(d) == {d[i][1] : i \in 1..Len(d)}

Lookup(d, k) == d[CHOOSE i \in 1..Len(d) : d[i][1] = k][2]

\* d.get(k, default)
DictGet(d, k, default) == IF k \in KeySet(d) THEN Lookup(d, k) ELSE default

\* d[k] = v
SetItem(d, k, v) ==
    IF k \in KeySet(d)
    THEN [i \in 1..Len(d) |-> IF d[i][1] = k THEN <<k, v>> ELSE d[i]]
    ELSE Append(d, <<k, v>>)

RECURSIVE DictUpdate(_, _)
\* d.update(other)
DictUpdate(d, other) ==
    IF other = <<>> THEN d
    ELSE DictUpdate(SetItem(d, Head(other)[1], Head(other)[2]), Tail(other))

Absent(default) == [present |-> FALSE, val |-> default]

Present(v) == [present |-> TRUE, val |-> v]

\* obj.get(field, default) on an optional field
OptGet(o, default) == IF o.present THEN o.val ELSE default

\* d.get(k) on a dict of strings: None when k is missing
StrGet(d, k) == IF k \in KeySet(d) THEN Present(Lookup(d, k)) ELSE Absent("")

\* truth value of an optional string: None and "" are false
Truthy(o) == o.present /\ o.val # ""

---------------------------------------------------------------------------
(* Outcomes of a call *)

NoCause == [type |-> "", code |-> 0, reason |-> ""]

NoError == [template |-> "", pkg |-> "", cause |-> NoCause]

Return(v) == [raised |-> FALSE, error |-> NoError, value |-> v]

Raise(e, v) == [raised |-> TRUE, error |-> e, value |-> v]

---------------------------------------------------------------------------
(* Registry documents *)

\* the {} a missing version record or a missing document defaults to
EmptyRecord ==
    [dependencies |-> Absent(EmptyDict), devDependencies |-> Absent(EmptyDict),
     peerDependencies |-> Absent(EmptyDict)]

EmptyDocument == [dist_tags |-> Absent(EmptyDict), versions |-> Absent(EmptyDict)]

\* placeholders for a call that was not made
NotCalled == Return(EmptyDict)

NotFetched == Return(EmptyDocument)

DepPairs == DepNames \X Ranges

DepDicts ==
    {EmptyDict} \cup {<<p>> : p \in DepPairs}
    \cup {<<pq[1], pq[2]>> : pq \in {x \in DepPairs \X DepPairs : x[1][1] # x[2][1]}}

DepMaps == {Absent(EmptyDict)} \cup {Present(d) : d \in DepDicts}

Entries(r) ==
    Len(r.dependencies.val) + Len(r.devDependencies.val) + Len(r.peerDependencies.val)

VersionRecords ==
    {r \in [dependencies : DepMaps, devDependencies : DepMaps,
            peerDependencies : DepMaps] : Entries(r) <= MaxEntries}

VersionDicts ==
    {EmptyDict}
    \cup {<< <<k, r>> >> : k \in VersionKeys, r \in VersionRecords}
    \cup {<< <<k[1], r[1]>>, <<k[2], r[2]>> >> :
            k \in {x \in VersionKeys \X VersionKeys : x[1] # x[2]},
            r \in {y \in VersionRecords \X VersionRecords :
                     Entries(y[1]) + Entries(y[2]) <= MaxEntries}}

DistTags ==
    {Absent(EmptyDict), Present(EmptyDict)}
    \cup {Present(<< <<"latest", t>> >>) : t \in LatestTags}

Documents ==
    [dist_tags : DistTags,
     versions : {Absent(EmptyDict)} \cup {Present(v) : v \in VersionDicts}]

---------------------------------------------------------------------------
(* NPMAnalyzer.extract_dependencies *)

\* a fallback that takes the first key, list(versions.keys())[0]
SelectedVersionFirstKey(package_info) ==
    LET latest_version ==
            StrGet(OptGet(package_info.dist_tags, EmptyDict), "latest")
        versions == OptGet(package_info.versions, EmptyDict)
    IN  IF ~Truthy(latest_version)
        THEN IF Len(versions) > 0
             THEN Present(Keys(versions)[1])
             ELSE Absent("")
        ELSE latest_version

\* latest_version after lines 43-50: Absent when the method returns {} at once
SelectedVersion(package_info) ==
    LET latest_version ==
            StrGet(OptGet(package_info.dist_tags, EmptyDict), "latest")
        versions == OptGet(package_info.versions, EmptyDict)
    IN  IF ~Truthy(latest_version)
        THEN IF Len(versions) > 0
             THEN Present(Keys(versions)[Len(versions)])
             ELSE Absent("")
        ELSE latest_version

\* a lookup by subscript, versions[latest_version], which raises KeyError
VersionInfoSubscript(package_info, latest_version) ==
    LET versions == OptGet(package_info.versions, EmptyDict)
    IN  IF latest_version \in KeySet(versions)
        THEN Return(Lookup(versions, latest_version))
        ELSE Raise([template |-> "KeyError", pkg |-> "", cause |-> NoCause],
                   EmptyRecord)

\* version_info, line 53
VersionInfo(package_info, latest_version) ==
    Return(DictGet(OptGet(package_info.versions, EmptyDict), latest_version,
                   EmptyRecord))

\* a merge in the opposite order: runtime dependencies win
MergeDepsRuntimeWins(version_info) ==
    LET deps == OptGet(version_info.dependencies, EmptyDict)
        dev_deps == OptGet(version_info.devDependencies, EmptyDict)
        peer_deps == OptGet(version_info.peerDependencies, EmptyDict)
    IN  DictUpdate(DictUpdate(DictUpdate(EmptyDict, peer_deps), dev_deps), deps)

\* all_deps, lines 56-66
MergeDeps(version_info) ==
    LET deps == OptGet(version_info.dependencies, EmptyDict)
        dev_deps == OptGet(version_info.devDependencies, EmptyDict)
        peer_deps == OptGet(version_info.peerDependencies, EmptyDict)
    IN  DictUpdate(DictUpdate(DictUpdate(EmptyDict, deps), dev_deps), peer_deps)

extract_dependencies(info) ==
    LET latest_version == SelectedVersion(info)
    IN  IF ~latest_version.present THEN Return(EmptyDict)
        ELSE LET version_info == VersionInfo(info, latest_version.val)
             IN  IF version_info.raised
                 THEN Raise(version_info.error, EmptyDict)
                 ELSE Return(MergeDeps(version_info.value))

---------------------------------------------------------------------------
(* The network, as NPMAnalyzer.get_package_info sees it *)

NPM_REGISTRY_URL == "https://registry.npmjs.org"

HTTP_OK == 200

HTTP_NOT_FOUND == 404

\* statuses urlopen hands back as a response (2xx), and as an HTTPError
ResponseStatuses == {HTTP_OK, 204}

ErrorStatuses == {HTTP_NOT_FOUND, 403, 500}

ReasonPhrase(status) ==
    CASE status = 200 -> "OK"
      [] status = 204 -> "No Content"
      [] status = 403 -> "Forbidden"
      [] status = 404 -> "Not Found"
      [] status = 500 -> "Internal Server Error"
      [] OTHER -> ""

Latest(tag) == Present(<< <<"latest", tag>> >>)

Record(deps, dev_deps, peer_deps) ==
    [dependencies |-> deps, devDependencies |-> dev_deps,
     peerDependencies |-> peer_deps]

Document(dist_tags, versions) == [dist_tags |-> dist_tags, versions |-> versions]

\* the documents the registry serves in the call sequences
RegistryDocuments ==
    { EmptyDocument,
      \* one version with runtime and development dependencies
      Document(Latest("0.1.0"),
               Present(<< <<"0.1.0",
                            Record(Present(<< <<"lodash", "^4.17.21">> >>),
                                   Present(<< <<"jest", "^27.0.0">> >>),
                                   Absent(EmptyDict))>> >>)),
      \* one version without any dependency map
      Document(Latest("0.2.0"), Present(<< <<"0.2.0", EmptyRecord>> >>)),
      \* the same name as runtime and as peer dependency
      Document(Latest("0.1.0"),
               Present(<< <<"0.1.0",
                            Record(Present(<< <<"lodash", "^4.17.21">> >>),
                                   Absent(EmptyDict),
                                   Present(<< <<"lodash", "^27.0.0">> >>))>> >>)),
      \* no dist-tags, two versions
      Document(Absent(EmptyDict),
               Present(<< <<"0.2.0",
                            Record(Present(<< <<"jest", "^27.0.0">> >>),
                                   Absent(EmptyDict), Absent(EmptyDict))>>,
                          <<"0.1.0",
                            Record(Present(<< <<"lodash", "^4.17.21">> >>),
                                   Absent(EmptyDict), Absent(EmptyDict))>> >>)),
      \* latest names a version that is not published
      Document(Latest("1.2.3"),
               Present(<< <<"0.1.0",
                            Record(Present(<< <<"lodash", "^4.17.21">> >>),
                                   Absent(EmptyDict), Absent(EmptyDict))>> >>)) }

NoNet == [open |-> "", status |-> 0, read |-> "", body |-> "", doc |-> EmptyDocument]

\* open: urlopen raised URLError / raised HTTPError / returned a response;
\* read: response.read() returned the body or raised OSError (connection
\* reset, timeout); body: the bytes decode to a JSON document or do not
NetOutcomes ==
    {[NoNet EXCEPT !.open = "URLError"]}
    \cup {[NoNet EXCEPT !.open = "HTTPError", !.status = s] : s \in ErrorStatuses}
    \cup {[NoNet EXCEPT !.open = "response", !.status = s] :
            s \in ResponseStatuses \ {HTTP_OK}}
    \cup {[NoNet EXCEPT !.open = "response", !.status = HTTP_OK, !.read = "OSError"]}
    \cup {[NoNet EXCEPT !.open = "response", !.status = HTTP_OK, !.read = "ok",
                        !.body = "garbage"]}
    \cup {[NoNet EXCEPT !.open = "response", !.status = HTTP_OK, !.read = "ok",
                        !.body = "json", !.doc = d] : d \in RegistryDocuments}

---------------------------------------------------------------------------
(* Side effects *)

Event(kind, by, arg) == [ev |-> kind, by |-> by, arg |-> arg]

Effects(outcome, evs) ==
    [raised |-> outcome.raised, error |-> outcome.error, value |-> outcome.value,
     events |-> evs]

Outcome(e) == [raised |-> e.raised, error |-> e.error, value |-> e.value]

RECURSIVE Select(_, _)
\* the events of one kind, in order
Select(evs, kind) ==
    IF evs = <<>> THEN <<>>
    ELSE IF Head(evs).ev = kind THEN <<Head(evs)>> \o Select(Tail(evs), kind)
    ELSE Select(Tail(evs), kind)

Args(evs) == [i \in 1..Len(evs) |-> evs[i].arg]

---------------------------------------------------------------------------
(* NPMAnalyzer.get_package_info *)

\* message templates of the exceptions the program raises
MsgNotFound == "package not found in npm registry"

MsgRegistryError == "error requesting npm registry"

MsgNetworkError == "network error"

MsgUnknownError == "unknown error"

MsgNoPackageName == "package name not given in configuration"

Exc(type, code) == [type |-> type, code |-> code, reason |-> ReasonPhrase(code)]

\* the try block, lines 21-26: returns the document or raises inside the try
TryRequest(n) ==
    IF n.open # "response"
    THEN [raised |-> TRUE, exc |-> Exc(n.open, n.status), value |-> EmptyDocument]
    ELSE IF n.status = HTTP_OK
    THEN IF n.read # "ok"
         THEN [raised |-> TRUE, exc |-> Exc(n.read, 0), value |-> EmptyDocument]
         ELSE IF n.body # "json"
         THEN [raised |-> TRUE, exc |-> Exc("JSONDecodeError", 0),
               value |-> EmptyDocument]
         ELSE [raised |-> FALSE, exc |-> NoCause, value |-> n.doc]
    ELSE [raised |-> TRUE, exc |-> Exc("Exception", n.status),
          value |-> EmptyDocument]

\* except clauses that do not single out status 404
HandleRequestErrorNo404(package_name, e) ==
    IF e.type = "HTTPError"
    THEN [template |-> MsgRegistryError, pkg |-> "", cause |-> e]
    ELSE IF e.type = "URLError"
    THEN [template |-> MsgNetworkError, pkg |-> "", cause |-> e]
    ELSE [template |-> MsgUnknownError, pkg |-> "", cause |-> e]

\* the except clauses, lines 28-36
HandleRequestError(package_name, e) ==
    IF e.type = "HTTPError"
    THEN IF e.code = HTTP_NOT_FOUND
         THEN [template |-> MsgNotFound, pkg |-> package_name, cause |-> NoCause]
         ELSE [template |-> MsgRegistryError, pkg |-> "", cause |-> e]
    ELSE IF e.type = "URLError"
    THEN [template |-> MsgNetworkError, pkg |-> "", cause |-> e]
    ELSE [template |-> MsgUnknownError, pkg |-> "", cause |-> e]

\* line 18
RequestUrl(package_name) == NPM_REGISTRY_URL \o "/" \o package_name

\* a client that asks a second time when the first request failed
RequestsRetry(package_name, n) ==
    IF n.open = "response"
    THEN <<Event("urlopen", "get_package_info", RequestUrl(package_name))>>
    ELSE <<Event("urlopen", "get_package_info", RequestUrl(package_name)),
           Event("urlopen", "get_package_info", RequestUrl(package_name))>>

\* the calls of urlopen one call of get_package_info makes
Requests(package_name, n) ==
    <<Event("urlopen", "get_package_info", RequestUrl(package_name))>>

\* a client that reports a failure on the console before raising it
get_package_info_printing(package_name, n) ==
    LET t == TryRequest(n)
    IN  IF t.raised
        THEN Effects(Raise(HandleRequestError(package_name, t.exc), EmptyDocument),
                     Requests(package_name, n)
                       \o <<Event("print", "get_package_info", "request failed")>>)
        ELSE Effects(Return(t.value), Requests(package_name, n))

get_package_info(package_name, n) ==
    LET t == TryRequest(n)
    IN  IF t.raised
        THEN Effects(Raise(HandleRequestError(package_name, t.exc), EmptyDocument),
                     Requests(package_name, n))
        ELSE Effects(Return(t.value), Requests(package_name, n))

---------------------------------------------------------------------------
(* NPMAnalyzer.analyze_dependencies *)

Call(by, callee) == Event("call", by, callee)

ConsoleLine(by, text) == Event("print", by, text)

\* lines 75-76
AnalyzeHeader(package_name) ==
    <<ConsoleLine("analyze_dependencies", "analysing dependencies of " \o package_name),
      ConsoleLine("analyze_dependencies", "====")>>

\* an orchestrator that answers a failed fetch with an empty map
analyze_dependencies_swallow(cfg, n) ==
    LET package_name == cfg
    IN  IF ~Truthy(package_name)
        THEN [raised |-> TRUE,
              error |-> [template |-> MsgNoPackageName, pkg |-> "", cause |-> NoCause],
              value |-> EmptyDict, events |-> <<>>, fetched |-> NotFetched]
        ELSE LET f == get_package_info(package_name.val, n)
                 before == AnalyzeHeader(package_name.val)
                             \o <<Call("analyze_dependencies", "get_package_info")>>
                             \o f.events
                 r == extract_dependencies(f.value)
             IN  [raised |-> r.raised, error |-> r.error, value |-> r.value,
                  events |-> before \o <<Call("analyze_dependencies",
                                              "extract_dependencies")>>,
                  fetched |-> Outcome(f)]

\* a guard that lets the empty name through
MissingNameNoneOnly(package_name) == ~package_name.present

\* "if not package_name", line 72
MissingName(package_name) == ~Truthy(package_name)

analyze_dependencies(cfg, n) ==
    LET package_name == cfg
    IN  IF MissingName(package_name)
        THEN [raised |-> TRUE,
              error |-> [template |-> MsgNoPackageName, pkg |-> "", cause |-> NoCause],
              value |-> EmptyDict, events |-> <<>>, fetched |-> NotFetched]
        ELSE LET f == get_package_info(package_name.val, n)
                 before == AnalyzeHeader(package_name.val)
                             \o <<Call("analyze_dependencies", "get_package_info")>>
                             \o f.events
             IN  IF f.raised
                 THEN [raised |-> TRUE, error |-> f.error, value |-> EmptyDict,
                       events |-> before, fetched |-> Outcome(f)]
                 ELSE LET r == extract_dependencies(f.value)
                      IN  [raised |-> r.raised, error |-> r.error, value |-> r.value,
                           events |-> before \o <<Call("analyze_dependencies",
                                                       "extract_dependencies")>>,
                           fetched |-> Outcome(f)]

---------------------------------------------------------------------------
(* main *)

\* what opening and parsing the configuration file gave, lines 89-113
ConfigLoads == {"ok", "FileNotFoundError", "JSONDecodeError"}

\* config.get('package_name'): missing, empty or a name
Configs == {Absent(""), Present("")} \cup {Present(p) : p \in PackageNames}

Exit(by) == Event("exit", by, "1")

\* lines 116-121: one line per key of the configuration
ShowConfig(cfg) ==
    <<ConsoleLine("main", "analyzer configuration:"), ConsoleLine("main", "----")>>
    \o (IF cfg.present THEN <<ConsoleLine("main", "package_name: " \o cfg.val)>> ELSE <<>>)
    \o <<ConsoleLine("main", "----"), ConsoleLine("main", "")>>

\* lines 129-137
ShowDependencies(dependencies) ==
    IF Len(dependencies) > 0
    THEN <<ConsoleLine("main", "direct dependencies of the package:"), ConsoleLine("main", "----")>>
         \o [i \in 1..Len(dependencies) |->
               ConsoleLine("main", dependencies[i][1] \o ": " \o dependencies[i][2])]
         \o <<ConsoleLine("main", "total dependencies found")>>
    ELSE <<ConsoleLine("main", "the package has no dependencies")>>

NotAnalyzed ==
    [raised |-> FALSE, error |-> NoError, value |-> EmptyDict, events |-> <<>>,
     fetched |-> NotFetched]

main(load, cfg, n) ==
    IF load = "FileNotFoundError"
    THEN [exit |-> TRUE, analysis |-> NotAnalyzed,
          events |-> <<ConsoleLine("main", "configuration file not found"),
                       ConsoleLine("main", "create config.json with the following content:"),
                       ConsoleLine("main", "sample configuration"), Exit("main")>>]
    ELSE IF load = "JSONDecodeError"
    THEN [exit |-> TRUE, analysis |-> NotAnalyzed,
          events |-> <<ConsoleLine("main", "error in JSON format"), Exit("main")>>]
    ELSE LET a == analyze_dependencies(cfg, n)
             before == ShowConfig(cfg)
                         \o <<Call("main", "analyze_dependencies")>> \o a.events
         IN  IF a.raised
             THEN [exit |-> TRUE, analysis |-> a,
                   events |-> before
                     \o <<ConsoleLine("main", "error analysing dependencies"), Exit("main")>>]
             ELSE [exit |-> FALSE, analysis |-> a,
                   events |-> before \o ShowDependencies(a.value)]

---------------------------------------------------------------------------
(* The caller: a sequence of at most MaxCalls calls in one process *)

Init ==
    /\ op = "none"
    /\ config = Absent("")
    /\ cfgfile = ""
    /\ net = NoNet
    /\ doc = EmptyDocument
    /\ fetched = NotFetched
    /\ result = NotCalled
    /\ events = <<>>
    /\ requests = <<>>
    /\ exited = FALSE
    /\ calls = 0

CanCall == calls < MaxCalls /\ ~exited

\* the network is consulted only when a request is made
NetFor(cfg) == IF Truthy(cfg) THEN NetOutcomes ELSE {NoNet}

Requested(evs) == Args(Select(evs, "urlopen"))

CallFetch ==
    /\ CanCall
    /\ \E package_name \in PackageNames, n \in NetOutcomes :
         LET f == get_package_info(package_name, n)
         IN  /\ op' = "get_package_info"
             /\ config' = Present(package_name)
             /\ net' = n
             /\ fetched' = Outcome(f)
             /\ doc' = f.value
             /\ result' = NotCalled
             /\ events' = <<Call("caller", "get_package_info")>> \o f.events
             /\ requests' = requests \o Requested(f.events)
    /\ calls' = calls + 1
    /\ UNCHANGED <<cfgfile, exited>>

CallExtract ==
    /\ CanCall
    /\ \E package_info \in RegistryDocuments :
         /\ op' = "extract_dependencies"
         /\ doc' = package_info
         /\ result' = extract_dependencies(package_info)
    /\ config' = Absent("")
    /\ net' = NoNet
    /\ fetched' = NotFetched
    /\ events' = <<Call("caller", "extract_dependencies")>>
    /\ calls' = calls + 1
    /\ UNCHANGED <<cfgfile, requests, exited>>

CallAnalyze ==
    /\ CanCall
    /\ \E cfg \in Configs :
         \E n \in NetFor(cfg) :
           LET a == analyze_dependencies(cfg, n)
           IN  /\ op' = "analyze_dependencies"
               /\ config' = cfg
               /\ net' = n
               /\ fetched' = a.fetched
               /\ doc' = a.fetched.value
               /\ result' = Outcome(a)
               /\ events' = <<Call("caller", "analyze_dependencies")>> \o a.events
               /\ requests' = requests \o Requested(a.events)
    /\ calls' = calls + 1
    /\ UNCHANGED <<cfgfile, exited>>

CallMain ==
    /\ CanCall
    /\ \E load \in ConfigLoads :
         \E cfg \in (IF load = "ok" THEN Configs ELSE {Absent("")}) :
           \E n \in (IF load = "ok" THEN NetFor(cfg) ELSE {NoNet}) :
             LET m == main(load, cfg, n)
             IN  /\ op' = "main"
                 /\ cfgfile' = load
                 /\ config' = cfg
                 /\ net' = n
                 /\ fetched' = m.analysis.fetched
                 /\ doc' = m.analysis.fetched.value
                 /\ result' = Outcome(m.analysis)
                 /\ events' = <<Call("caller", "main")>> \o m.events
                 /\ requests' = requests \o Requested(m.events)
                 /\ exited' = m.exit
    /\ calls' = calls + 1

Next == CallFetch \/ CallExtract \/ CallAnalyze \/ CallMain

Spec == Init /\ [][Next]_vars

---------------------------------------------------------------------------
(* extract_dependencies applied to every document of the bounded universe *)

InitExtract ==
    /\ op = "none"
    /\ config = Absent("")
    /\ cfgfile = ""
    /\ net = NoNet
    /\ doc \in Documents
    /\ fetched = NotFetched
    /\ result = NotCalled
    /\ events = <<>>
    /\ requests = <<>>
    /\ exited = FALSE
    /\ calls = 0

ApplyExtract ==
    /\ op = "none"
    /\ op' = "extract_dependencies"
    /\ result' = extract_dependencies(doc)
    /\ calls' = calls + 1
    /\ UNCHANGED <<config, cfgfile, net, doc, fetched, events, requests,
                   exited>>

NextExtract == ApplyExtract

SpecExtract == InitExtract /\ [][NextExtract]_vars

---------------------------------------------------------------------------
(* Properties *)

Called(callee) ==
    \E i \in 1..Len(events) : events[i].ev = "call" /\ events[i].arg = callee

CallsOf(callee) ==
    {i \in 1..Len(events) : events[i].ev = "call" /\ events[i].arg = callee}

UrlOpens == {i \in 1..Len(events) : events[i].ev = "urlopen"}

PrintedBy(by) == {i \in 1..Len(events) : events[i].ev = "print" /\ events[i].by = by}

HasName == config.present /\ config.val # ""

\* C1: analyze_dependencies called with an empty or absent package name fails
\* with the missing-package-name error, makes no registry request and never
\* calls get_package_info or extract_dependencies.
C1_MissingNameNoRequest ==
    (Called("analyze_dependencies") /\ ~HasName) =>
        /\ result.raised
        /\ result.error.template = MsgNoPackageName
        /\ UrlOpens = {}
        /\ ~Called("get_package_info")
        /\ ~Called("extract_dependencies")

C1_Witness ==
    /\ op = "analyze_dependencies"
    /\ config = Present("")
    /\ result.raised
    /\ calls = 2
    /\ requests # <<>>

\* C2: every call of get_package_info appends exactly one request to the
\* requests made so far, to <registry URL>/<package name> with nothing
\* added to it, whether the call succeeds or fails and whether or not the same
\* URL has been requested before.
C2_OneRequestPerFetch ==
    [][(calls' = calls + 1 /\ Called("get_package_info")') =>
          requests' = requests \o <<"https://registry.npmjs.org" \o "/" \o config'.val>>]_vars

C2_Witness ==
    /\ op = "get_package_info"
    /\ fetched.raised
    /\ requests = <<"https://registry.npmjs.org/express",
                    "https://registry.npmjs.org/express">>

\* C3: get_package_info on an HTTP 404 fails with the not-found error that
\* names the requested package, and on a 200 response whose body is not JSON
\* fails with the error that wraps the JSON decoding failure; neither returns
\* a document.
C3_NotFoundAndMalformed ==
    Called("get_package_info") =>
        /\ (net.open = "HTTPError" /\ net.status = 404) =>
              /\ fetched.raised
              /\ fetched.error.template = MsgNotFound
              /\ fetched.error.pkg = config.val
              /\ fetched.value = EmptyDocument
        /\ (net.open = "response" /\ net.status = 200 /\ net.read = "ok"
              /\ net.body = "garbage") =>
              /\ fetched.raised
              /\ fetched.error.template = MsgUnknownError
              /\ fetched.error.cause.type = "JSONDecodeError"
              /\ fetched.value = EmptyDocument

C3_Witness ==
    /\ op = "get_package_info"
    /\ net.open = "HTTPError"
    /\ net.status = 404
    /\ fetched.error.pkg = "sample"
    /\ calls = 2

\* C4: for every response status other than 200 and 404, delivered as a
\* response or as an HTTPError, get_package_info fails with an error that
\* carries the status code and reason phrase and whose kind is not the kind
\* of the malformed-response, not-found or network errors.
C4_UnexpectedStatusDistinct ==
    (Called("get_package_info") /\ net.open \in {"HTTPError", "response"}
        /\ net.status \notin {200, 404}) =>
        /\ fetched.raised
        /\ fetched.error.cause.code = net.status
        /\ fetched.error.cause.reason = ReasonPhrase(net.status)
        /\ fetched.error.template \notin {MsgUnknownError, MsgNotFound, MsgNetworkError}

\* C5: every transport-level failure, while opening the connection or while
\* reading the response body, makes get_package_info fail with the network
\* error and no other kind.
C5_TransportIsNetworkError ==
    (Called("get_package_info")
        /\ (net.open = "URLError" \/ (net.open = "response" /\ net.read = "OSError"))) =>
        /\ fetched.raised
        /\ fetched.error.template = MsgNetworkError

\* the value of dist-tags.latest when it is present and non-empty
LatestOf(d) ==
    IF d.dist_tags.present
       /\ \E i \in 1..Len(d.dist_tags.val) :
             d.dist_tags.val[i][1] = "latest" /\ d.dist_tags.val[i][2] # ""
    THEN {d.dist_tags.val[i][2] : i \in {j \in 1..Len(d.dist_tags.val) :
                                          d.dist_tags.val[j][1] = "latest"}}
    ELSE {}

PublishedVersions(d) == IF d.versions.present THEN d.versions.val ELSE <<>>

\* the record extract_dependencies reads for version key k
RecordOf(d, k) ==
    IF \E i \in 1..Len(PublishedVersions(d)) : PublishedVersions(d)[i][1] = k
    THEN {PublishedVersions(d)[i][2] : i \in {j \in 1..Len(PublishedVersions(d)) :
                                               PublishedVersions(d)[j][1] = k}}
    ELSE {EmptyRecord}

SelectedRecords(d) ==
    IF SelectedVersion(d).present THEN RecordOf(d, SelectedVersion(d).val) ELSE {}

MapOf(o) == IF o.present THEN o.val ELSE <<>>

\* C7: the map extract_dependencies returns has as keys exactly the keys of
\* dependencies, devDependencies and peerDependencies of the selected version
\* record, each key once, and maps each key to its value in the last of the
\* three maps, in that order, that contains it.
C7_MergeLastWins ==
    op = "extract_dependencies" =>
        \A r \in SelectedRecords(doc) :
            LET d == MapOf(r.dependencies)
                v == MapOf(r.devDependencies)
                p == MapOf(r.peerDependencies)
                m == result.value
            IN  /\ KeySet(m) = KeySet(d) \cup KeySet(v) \cup KeySet(p)
                /\ Cardinality(KeySet(m)) = Len(m)
                /\ \A i \in 1..Len(m) :
                      m[i][2] = IF m[i][1] \in KeySet(p) THEN Lookup(p, m[i][1])
                                ELSE IF m[i][1] \in KeySet(v) THEN Lookup(v, m[i][1])
                                ELSE Lookup(d, m[i][1])

C7_Witness ==
    /\ op = "extract_dependencies"
    /\ \E r \in SelectedRecords(doc) :
          /\ r.dependencies = Present(<< <<"lodash", "^4.17.21">> >>)
          /\ ~r.devDependencies.present
          /\ r.peerDependencies = Present(<< <<"lodash", "^27.0.0">> >>)
    /\ result.value = << <<"lodash", "^27.0.0">> >>

\* C8: extract_dependencies never raises, whatever of dist-tags, latest,
\* versions and the three dependency maps is missing or empty; when the
\* selected key is not a key of versions the result is the empty map.
C8_ExtractNeverFails ==
    op = "extract_dependencies" =>
        /\ ~result.raised
        /\ result.error = NoError
        /\ \A t \in LatestOf(doc) :
              (\A i \in 1..Len(PublishedVersions(doc)) :
                    PublishedVersions(doc)[i][1] # t)
              => result.value = EmptyDict

C8_Witness ==
    /\ op = "extract_dependencies"
    /\ LatestOf(doc) = {"1.2.3"}
    /\ Len(doc.versions.val) = 2
    /\ doc.versions.val[2][2].dependencies = Present(<< <<"lodash", "^4.17.21">> >>)
    /\ result = Return(EmptyDict)

\* C9: analyze_dependencies with a non-empty name calls get_package_info
\* exactly once, with exactly one request, before any call of
\* extract_dependencies; when the fetch fails it raises that same error,
\* returns no map and does not call extract_dependencies; when the fetch
\* succeeds it calls extract_dependencies once and returns its outcome on the
\* fetched document.
C9_AnalyzeAllOrNothing ==
    (Called("analyze_dependencies") /\ HasName) =>
        /\ Cardinality(CallsOf("get_package_info")) = 1
        /\ Cardinality(UrlOpens) = 1
        /\ \A i \in CallsOf("extract_dependencies"), j \in UrlOpens : j < i
        /\ fetched.raised =>
              /\ result.raised
              /\ result.error = fetched.error
              /\ result.value = EmptyDict
              /\ CallsOf("extract_dependencies") = {}
        /\ ~fetched.raised =>
              /\ Cardinality(CallsOf("extract_dependencies")) = 1
              /\ doc = net.doc
              /\ result = extract_dependencies(net.doc)

C9_Witness ==
    /\ op = "analyze_dependencies"
    /\ config = Present("sample")
    /\ ~fetched.raised
    /\ result = Return(<< <<"lodash", "^4.17.21">>, <<"jest", "^27.0.0">> >>)

\* C10 as stated: neither get_package_info, extract_dependencies nor
\* analyze_dependencies prints or exits; only main does.
C10_CoreSilent ==
    \A i \in 1..Len(events) :
        events[i].ev \in {"print", "exit"} => events[i].by = "main"

\* C10 amended: get_package_info and extract_dependencies print nothing;
\* analyze_dependencies prints exactly its two header lines, before the
\* request, when the name is non-empty, and nothing otherwise; none of the
\* three exits the process, a failure reaches the caller as a raised error,
\* and the process exits only in main.
C10_OnlyHeaderPrinted ==
    /\ \A i \in 1..Len(events) :
          /\ events[i].ev = "exit" => events[i].by = "main"
          /\ events[i].ev = "print" => events[i].by \in {"main", "analyze_dependencies"}
    /\ Cardinality(PrintedBy("analyze_dependencies")) =
          IF Called("analyze_dependencies") /\ HasName THEN 2 ELSE 0
    /\ \A i \in PrintedBy("analyze_dependencies"), j \in UrlOpens : i < j
    /\ op # "main" => ~exited /\ PrintedBy("main") = {}
    /\ (op = "analyze_dependencies" /\ fetched.raised) => result.raised

C10_Witness ==
    /\ op = "analyze_dependencies"
    /\ fetched.raised
    /\ result.raised
    /\ Cardinality(PrintedBy("analyze_dependencies")) = 2
    /\ ~exited

====
